---- MODULE Spec2Model ----
(***************************************************************************)
(* A model of droidrun_wrapper.py: the AndroidToolsWrapper facade that     *)
(* talks to the native executor through three JSON files (state file,      *)
(* action-request file, action-result file).                               *)
(*                                                                         *)
(* Time is counted in poll intervals: poll_interval (0.1 s) is 1 unit and  *)
(* max_wait_time (30.0 s) is 300 units.  A coroutine runs without          *)
(* interruption from one await to the next, so an action of the model is   *)
(* the code between two awaits; asyncio.sleep(poll_interval) takes one     *)
(* unit and everything else takes none.  The executor is another process:  *)
(* it may rewrite the files between any two actions of the agent.          *)
(***************************************************************************)
EXTENDS Integers, Sequences, FiniteSets, TLC

(***************************************************************************)
(* Bounds of the model.                                                    *)
(***************************************************************************)
\* execute calls issued in one behaviour
MaxCalls == 2
\* nodes of an element tree
MaxNodes == 4
\* notes remember accepts in one behaviour
MaxNotes == 11
\* polls a call makes in the runs of several kinds of call and in those of
\* concurrent calls, but for the first call of the run, which waits to its
\* deadline
MaxPolls == 3

(***************************************************************************)
(* Program constants.                                                      *)
(***************************************************************************)
\* __init__(poll_interval=0.1): the unit of time
poll_interval == 1
\* max_wait_time = 30.0 seconds, in poll intervals
max_wait_time == 300
\* dict.get("actionId") of an object without that key: None
NoActionId == -1
\* max_retries = 10 in get_state
max_retries == 10
\* max_memory_items = 10 in remember
max_memory_items == 10

\* The coroutines that may call the facade.  The agent is one cooperative
\* flow (MainTask); a second task exists for the interleavings of
\* concurrent calls.
Tasks == {"t1", "t2"}
MainTask == "t1"

VARIABLES
    \* the files shared with the executor
    actions_file, result_file,
    \* one _execute_action call per task: where it is, its locals (elapsed is
    \* time.time() - start_time, kept while the call runs), and what the last
    \* call returned or raised
    pc, action_id, action_type, elapsed, outcome,
    \* uuid.uuid4(): the n-th identifier drawn is n, never drawn twice
    next_id,
    \* history (not program state): when the result file was last written,
    \* whether the call has read an unparseable file, which ids were
    \* removed by the agent, and how the call of each id ended
    written_when, saw_partial, consumed, ended,
    \* get_state: the state file, the loop's position, the value returned,
    \* and the cache of the element tree
    state_file, gs_pc, attempt, state_ret, clickable_elements_cache,
    \* history: the attempts of the get_state call in progress (or the last
    \* one), each by what it found, and the waits it made
    gs_attempts, gs_waits,
    \* remember: the memory list and the string returned
    memory, remember_ret,
    \* history: the notes remember accepted, as they were given, and the
    \* argument of the last call
    accepted, remember_arg,
    \* complete: the completion status
    success, reason, finished,
    \* _extract_element_coordinates_by_index: what the last call gave
    locate_ret

chanVars == <<actions_file, result_file, pc, action_id, action_type, elapsed,
              outcome, next_id, written_when, saw_partial, consumed, ended>>

stateVars == <<state_file, gs_pc, attempt, state_ret, clickable_elements_cache,
               gs_attempts, gs_waits>>
memVars == <<memory, remember_ret, accepted, remember_arg>>
doneVars == <<success, reason, finished>>
locVars == <<locate_ret>>

vars == <<chanVars, stateVars, memVars, doneVars, locVars>>

(***************************************************************************)
(* The content of the result file, by what json.load makes of it.          *)
(***************************************************************************)
\* os.path.exists(result_file) is false
Missing == [kind |-> "missing", keys |-> {}, actionId |-> NoActionId,
            success |-> FALSE, result |-> "", error |-> ""]
\* json.load raises JSONDecodeError: the writer was caught mid-write
Partial == [kind |-> "partial", keys |-> {}, actionId |-> NoActionId,
            success |-> FALSE, result |-> "", error |-> ""]
\* json.load returns a value that is not an object, e.g. [] or 5
NonObject == [kind |-> "nonobject", keys |-> {}, actionId |-> NoActionId,
              success |-> FALSE, result |-> "", error |-> ""]

\* a JSON object {"actionId": id, "success": true, "result": payload}
SuccessResult(id, payload) ==
    [kind |-> "object", keys |-> {"actionId", "success", "result"},
     actionId |-> id, success |-> TRUE, result |-> payload, error |-> ""]
\* a JSON object {"actionId": id, "success": false, "error": e}
FailureResult(id, e) ==
    [kind |-> "object", keys |-> {"actionId", "success", "error"},
     actionId |-> id, success |-> FALSE, result |-> "", error |-> e]
\* a JSON object {"actionId": id, "success": false}
FailureNoError(id) ==
    [kind |-> "object", keys |-> {"actionId", "success"},
     actionId |-> id, success |-> FALSE, result |-> "", error |-> ""]
\* a JSON object {"success": true, "result": payload}: no actionId
ResultNoId(payload) ==
    [kind |-> "object", keys |-> {"success", "result"},
     actionId |-> NoActionId, success |-> TRUE, result |-> payload, error |-> ""]

\* the result strings the executor sends: one that is JSON, one that is not
Payloads == {"{\"ok\": true}", "done"}
Errors == {"element not found"}

\* what the executor may put in the result file once the ids in `ids` exist
ResultContents(ids) ==
    {Partial, NonObject}
    \cup {ResultNoId(p) : p \in Payloads}
    \cup {SuccessResult(0, "done")}
    \cup {SuccessResult(i, p) : i \in ids, p \in Payloads}
    \cup {FailureResult(i, e) : i \in ids, e \in Errors}
    \cup {FailureNoError(i) : i \in ids}

\* dict.get(key, default)
Get(obj, key, default) == IF key \in obj.keys THEN obj[key] ELSE default

(***************************************************************************)
(* Values a call returns.  json.loads of the strings of the model.         *)
(***************************************************************************)
NoValue == [type |-> "none", repr |-> ""]
RawString(s) == [type |-> "str", repr |-> s]
JSONDecodeError == [type |-> "JSONDecodeError", repr |-> ""]

json_loads(s) ==
    CASE s = "{\"ok\": true}" -> [type |-> "dict", repr |-> "ok=True"]
      [] s = "5" -> [type |-> "int", repr |-> "5"]
      [] OTHER -> JSONDecodeError

\* the payload is never parsed
DecodeResult_NeverParsed(result_str) == RawString(result_str)

\* lines 347-351: the parsed payload, or the raw string when it does not parse
DecodeResult(result_str) ==
    IF json_loads(result_str) = JSONDecodeError
    THEN RawString(result_str)
    ELSE json_loads(result_str)

NoOutcome == [kind |-> "none", value |-> NoValue, message |-> <<>>]
Returned(v) == [kind |-> "Success", value |-> v, message |-> <<>>]
ActionFailure(error) ==
    [kind |-> "ActionFailure", value |-> NoValue,
     message |-> <<"Action failed: ", error>>]
Timeout(atype) ==
    [kind |-> "Timeout", value |-> NoValue,
     message |-> <<"Action ", atype, " timed out after 30.0s">>]
(***************************************************************************)
(* _execute_action, lines 298-365.                                         *)
(***************************************************************************)
\* any result that has an actionId is taken for the call's
IdMatches_AnyId(content, aid) == "actionId" \in content.keys

\* a result without an id is taken for the call's
IdMatches_MissingIdPasses(content, aid) == Get(content, "actionId", aid) = aid

\* line 341: result_data.get("actionId") == action_id
IdMatches(content, aid) == Get(content, "actionId", NoActionId) = aid

\* line 335: while time.time() - start_time < max_wait_time
LoopContinues(e) == e < max_wait_time

Continue == [ends |-> FALSE, remove |-> FALSE, outcome |-> NoOutcome]
Raised(exc) ==
    [ends |-> TRUE, remove |-> FALSE,
     outcome |-> [kind |-> exc, value |-> NoValue, message |-> <<exc>>]]

\* lines 338-341: what reading the file raises.  json.load raises
\* JSONDecodeError on a file caught mid-write; result_data.get raises
\* AttributeError when the JSON value is not an object.
ReadRaises(content) ==
    CASE content.kind = "partial" -> "JSONDecodeError"
      [] content.kind = "nonobject" -> "AttributeError"
      [] OTHER -> "none"

\* JSONDecodeError is not caught
CaughtByPollLoop_KeyErrorOnly(exc) == exc \in {"KeyError"}

\* line 355: except (json.JSONDecodeError, KeyError)
CaughtByPollLoop(exc) == exc \in {"JSONDecodeError", "KeyError"}

\* the file is removed on success only
Matched_KeepsFileOnFailure(content) ==
    IF Get(content, "success", FALSE)
    THEN [ends |-> TRUE, remove |-> TRUE,
          outcome |-> Returned(DecodeResult(Get(content, "result", "")))]
    ELSE [ends |-> TRUE, remove |-> FALSE,
          outcome |-> ActionFailure(Get(content, "error", "Unknown error"))]

\* lines 343-354: the result carries the call's id.  The file is removed,
\* then the payload is decoded and returned, or the error raised.
Matched(content) ==
    [ends |-> TRUE, remove |-> TRUE,
     outcome |-> IF Get(content, "success", FALSE)
                 THEN Returned(DecodeResult(Get(content, "result", "")))
                 ELSE ActionFailure(Get(content, "error", "Unknown error"))]

\* lines 336-357, one pass through the body of the poll loop with `content`
\* in the result file: whether the call ends, how, and whether the file is
\* removed.
PollIteration(content, aid) ==
    IF content.kind = "missing" THEN Continue
    ELSE IF ReadRaises(content) # "none"
    THEN IF CaughtByPollLoop(ReadRaises(content)) THEN Continue
         ELSE Raised(ReadRaises(content))
    ELSE IF IdMatches(content, aid) THEN Matched(content)
    ELSE Continue

\* The call of task t from the loop test of line 335, reached at time e
\* since start_time, to its end or to the await of line 359.
LoopStep(t, aid, atype, e, log) ==
    LET r == IF LoopContinues(e)
             THEN PollIteration(result_file, aid)
             ELSE [ends |-> TRUE, remove |-> FALSE, outcome |-> Timeout(atype)]
    IN  /\ result_file' = IF r.remove THEN Missing ELSE result_file
        /\ written_when' = IF r.remove THEN "n/a" ELSE written_when
        /\ consumed' = IF r.remove THEN consumed \cup {result_file.actionId}
                                   ELSE consumed
        /\ pc' = [pc EXCEPT ![t] = IF r.ends THEN "idle" ELSE "sleep"]
        /\ outcome' = [outcome EXCEPT ![t] = r.outcome]
        /\ elapsed' = [elapsed EXCEPT ![t] = IF r.ends THEN 0 ELSE e]
        /\ saw_partial' = [saw_partial EXCEPT ![t] =
               IF e = 0 THEN LoopContinues(e) /\ result_file.kind = "partial"
               ELSE @ \/ (LoopContinues(e) /\ result_file.kind = "partial")]
        /\ ended' = [log EXCEPT ![aid] = IF r.ends THEN r.outcome.kind
                                                  ELSE "pending"]

\* the requests the facade sends: back() and tap_by_index(3)
Requests == {[actionType |-> "back", parameters |-> {}],
             [actionType |-> "tap_by_index", parameters |-> {<<"index", "3">>}]}

\* lines 313-335: a fresh id, the request written over the request file,
\* start_time taken, and the loop entered
StartExecute(t, req) ==
    /\ pc[t] = "idle"
    /\ next_id <= MaxCalls
    /\ next_id' = next_id + 1
    /\ action_id' = [action_id EXCEPT ![t] = next_id]
    /\ action_type' = [action_type EXCEPT ![t] = req.actionType]
    /\ actions_file' = [actionType |-> req.actionType,
                        parameters |-> req.parameters,
                        actionId |-> next_id]
    /\ LoopStep(t, next_id, req.actionType, 0, Append(ended, "pending"))

\* a facade operation that is one _execute_action call (back, tap_by_index)
Execute(t) ==
    /\ \E req \in Requests : StartExecute(t, req)
    /\ UNCHANGED <<stateVars, memVars, doneVars, locVars>>

\* lines 223-225: back() is one _execute_action call
Back(t) ==
    /\ StartExecute(t, [actionType |-> "back", parameters |-> {}])
    /\ UNCHANGED <<stateVars, memVars, doneVars, locVars>>

\* the request is withdrawn when the deadline has passed
Resume_RetractsOnTimeout(t) ==
    /\ pc[t] = "sleep"
    /\ LoopStep(t, action_id[t], action_type[t], elapsed[t] + poll_interval, ended)
    /\ actions_file' = IF LoopContinues(elapsed[t] + poll_interval) THEN actions_file
                       ELSE [actionType |-> "", parameters |-> {}, actionId |-> NoActionId]
    /\ UNCHANGED <<action_id, action_type, next_id>>
    /\ UNCHANGED <<stateVars, memVars, doneVars, locVars>>

\* line 359 returns: one poll interval has passed
Resume(t) ==
    /\ pc[t] = "sleep"
    /\ LoopStep(t, action_id[t], action_type[t], elapsed[t] + poll_interval, ended)
    /\ UNCHANGED <<actions_file, action_id, action_type, next_id>>
    /\ UNCHANGED <<stateVars, memVars, doneVars, locVars>>

(***************************************************************************)
(* The executor: it writes the result file, with any content, at any time. *)
(* An id it sends is one a request carried so far; a file left by an       *)
(* earlier session carries 0, an id of no request of this session.         *)
(***************************************************************************)
\* When a result is written, relative to the call it answers: "early" when
\* that call will poll again before its deadline (more than one poll interval
\* is left), "last" when it is waiting for the last time (the deadline is
\* less than one poll interval away), "n/a" when no call waits for that id.
WhenWritten(c) ==
    IF \E t \in Tasks : pc[t] = "sleep" /\ c.kind = "object" /\ IdMatches(c, action_id[t])
    THEN LET t == CHOOSE u \in Tasks : pc[u] = "sleep" /\ IdMatches(c, action_id[u])
         IN  IF elapsed[t] + poll_interval < max_wait_time THEN "early" ELSE "last"
    ELSE "n/a"

ExecutorWrite ==
    /\ \E c \in ResultContents(1..(next_id - 1)) :
          /\ result_file' = c
          /\ written_when' = WhenWritten(c)
    /\ UNCHANGED <<actions_file, pc, action_id, action_type, elapsed, outcome,
                   next_id, saw_partial, consumed, ended>>
    /\ UNCHANGED <<stateVars, memVars, doneVars, locVars>>

\* Lines 338-343 when the executor, another process, rewrites the result
\* file between the read of line 339 and the os.remove of line 343: the
\* call ends on the content it read, and the file removed holds what the
\* executor wrote since, the result of another call that waits.
DeleteAfterOverwrite(t) ==
    /\ pc[t] = "sleep"
    /\ LoopContinues(elapsed[t] + poll_interval)
    /\ result_file.kind = "object" /\ IdMatches(result_file, action_id[t])
    /\ \E u \in Tasks \ {t} :
          /\ pc[u] = "sleep"
          /\ consumed' = consumed \cup {action_id[u]}
    /\ result_file' = Missing
    /\ written_when' = "n/a"
    /\ pc' = [pc EXCEPT ![t] = "idle"]
    /\ outcome' = [outcome EXCEPT ![t] = Matched(result_file).outcome]
    /\ elapsed' = [elapsed EXCEPT ![t] = 0]
    /\ ended' = [ended EXCEPT ![action_id[t]] = Matched(result_file).outcome.kind]
    /\ UNCHANGED <<actions_file, action_id, action_type, next_id, saw_partial>>
    /\ UNCHANGED <<stateVars, memVars, doneVars, locVars>>

(***************************************************************************)
(* Text: a string is the sequence of its characters where the code looks   *)
(* inside it (str.strip, str.split, int).                                  *)
(***************************************************************************)
IsSpace(c) == c = " "

RECURSIVE LStrip(_)
LStrip(s) == IF s # <<>> /\ IsSpace(Head(s)) THEN LStrip(Tail(s)) ELSE s

RECURSIVE RStrip(_)
RStrip(s) ==
    IF s # <<>> /\ IsSpace(s[Len(s)]) THEN RStrip(SubSeq(s, 1, Len(s) - 1)) ELSE s

\* str.strip()
Strip(s) == RStrip(LStrip(s))

(***************************************************************************)
(* Element trees.  A node is {index, bounds, children}; a tree is the list *)
(* of its top-level nodes.                                                 *)
(***************************************************************************)
Node(i, b, c) == [index |-> i, bounds |-> b, children |-> c]

\* "0,0,10,10", "0,0,20,20" and "4,4,6,6"
Bounds_0_0_10_10 == <<"0", ",", "0", ",", "1", "0", ",", "1", "0">>
Bounds_0_0_20_20 == <<"0", ",", "0", ",", "2", "0", ",", "2", "0">>
Bounds_4_4_6_6 == <<"4", ",", "4", ",", "6", ",", "6">>

\* the tree of the specification's example
ExampleTree ==
    <<Node(1, Bounds_0_0_10_10, <<>>),
      Node(2, Bounds_0_0_20_20, <<Node(3, Bounds_4_4_6_6, <<>>)>>)>>

(***************************************************************************)
(* get_state, lines 73-129.  The content of the state file, by what an     *)
(* attempt makes of it.                                                    *)
(***************************************************************************)
StateContent(k, keys, text, tree, phone) ==
    [kind |-> k, keys |-> keys, formattedText |-> text, focusedText |-> "",
     a11yTree |-> tree, phoneState |-> phone]
\* os.path.exists(state_file) is false
StateMissing == StateContent("missing", {}, "", <<>>, {})
\* json.load raises JSONDecodeError: the writer was caught mid-write
StatePartial == StateContent("partial", {}, "", <<>>, {})
\* open raises PermissionError
StateUnreadable == StateContent("unreadable", {}, "", <<>>, {})
\* json.load returns a value that is not an object: .get raises AttributeError
StateNonObject == StateContent("nonobject", {}, "", <<>>, {})
\* a snapshot with all four fields
StateObject(text, tree, phone) ==
    StateContent("object", {"formattedText", "focusedText", "a11yTree", "phoneState"},
                 text, tree, phone)
\* the JSON object {}
StateEmptyObject == StateContent("object", {}, "", <<>>, {})

\* a dict of strings is the set of its items
SomePhoneState == {<<"packageName", "com.android.settings">>,
                   <<"currentApp", "Settings">>}

\* lines 109-116 and 121-128
empty_phone_state ==
    {<<"packageName", "Unknown">>, <<"currentApp", "Unknown">>,
     <<"activityName", "Unknown">>, <<"keyboardVisible", "False">>,
     <<"isEditable", "False">>, <<"focusedElement", "{}">>}

\* what get_state gives its caller: the tuple it returns, or the exception
\* it lets through
Snapshot(text, focused, tree, phone) ==
    [raised |-> "none", formatted_text |-> text, focused_text |-> focused,
     a11y_tree |-> tree, phone_state |-> phone]
Propagated(exc) ==
    [raised |-> exc, formatted_text |-> <<>>, focused_text |-> "",
     a11y_tree |-> <<>>, phone_state |-> {}]
NoSnapshot == Snapshot(<<>>, "", <<>>, {})

\* line 117
UnavailableSnapshot == Snapshot(<<"State not available">>, "", <<>>, empty_phone_state)
\* line 129: f"Error: {e}"
ErrorSnapshot(exc) == Snapshot(<<"Error: ", exc>>, "", <<>>, empty_phone_state)

\* lines 85-92: what an attempt raises
AttemptRaises(content) ==
    CASE content.kind = "partial" -> "JSONDecodeError"
      [] content.kind = "unreadable" -> "PermissionError"
      [] content.kind = "nonobject" -> "AttributeError"
      [] OTHER -> "none"

\* the retry loop catches nothing
CaughtByRetryLoop_Nothing(exc) == FALSE

\* line 102: except json.JSONDecodeError
CaughtByRetryLoop(exc) == exc = "JSONDecodeError"

\* only the errors of the file system are caught
CaughtByGetState_OSErrorOnly(exc) == exc \in {"PermissionError", "FileNotFoundError"}

\* line 119: except Exception
CaughtByGetState(exc) ==
    exc \in {"JSONDecodeError", "PermissionError", "AttributeError",
             "FileNotFoundError", "KeyError"}

\* one attempt too many
HasNextAttempt_OneMore(k) == k <= max_retries

\* line 83: for attempt in range(max_retries), max_retries = 10
HasNextAttempt(k) == k < max_retries

\* the history of an attempt that found `content`
Counted(log, content) ==
    LET exc == AttemptRaises(content)
    IN  [missing |-> log.missing + (IF content.kind = "missing" THEN 1 ELSE 0),
         partial |-> log.partial + (IF content.kind = "partial" THEN 1 ELSE 0),
         parsed |-> log.parsed + (IF content.kind = "object" THEN 1 ELSE 0),
         error |-> IF exc \notin {"none", "JSONDecodeError"} THEN exc ELSE log.error]
NoAttempts == [missing |-> 0, partial |-> 0, parsed |-> 0, error |-> "none"]

\* The call from the top of the for loop of line 83, with attempt = k, to
\* its return or to an await (lines 101 and 104).
AttemptStep(k, log, waits) ==
    IF ~HasNextAttempt(k)
    THEN \* lines 107-117
         /\ gs_pc' = "idle"
         /\ state_ret' = UnavailableSnapshot
         /\ gs_waits' = waits
         /\ UNCHANGED <<attempt, clickable_elements_cache>>
         /\ gs_attempts' = log
    ELSE LET exc == AttemptRaises(state_file)
         IN  /\ gs_attempts' = Counted(log, state_file)
             /\ IF state_file.kind = "missing" \/ (exc # "none" /\ CaughtByRetryLoop(exc))
                THEN \* lines 99-105: wait one poll interval and retry
                     /\ gs_pc' = "sleep"
                     /\ attempt' = k
                     /\ gs_waits' = waits + 1
                     /\ UNCHANGED <<state_ret, clickable_elements_cache>>
                ELSE IF exc # "none"
                THEN \* lines 119-129
                     /\ gs_pc' = "idle"
                     /\ attempt' = k
                     /\ gs_waits' = waits
                     /\ state_ret' = IF CaughtByGetState(exc) THEN ErrorSnapshot(exc)
                                                               ELSE Propagated(exc)
                     /\ UNCHANGED clickable_elements_cache
                ELSE \* lines 89-98
                     /\ gs_pc' = "idle"
                     /\ attempt' = k
                     /\ gs_waits' = waits
                     /\ clickable_elements_cache' = Get(state_file, "a11yTree", <<>>)
                     /\ state_ret' =
                          Snapshot(<<Get(state_file, "formattedText", "")>>,
                                   Get(state_file, "focusedText", ""),
                                   Get(state_file, "a11yTree", <<>>),
                                   Get(state_file, "phoneState", {}))

\* get_state is called
GetState ==
    /\ gs_pc = "idle"
    /\ AttemptStep(0, NoAttempts, 0)
    /\ UNCHANGED state_file
    /\ UNCHANGED <<chanVars, memVars, doneVars, locVars>>

\* the await of line 101 or 104 returns: the next attempt, or none is left
GetStateResume ==
    /\ gs_pc = "sleep"
    /\ AttemptStep(attempt + 1, gs_attempts, gs_waits)
    /\ UNCHANGED state_file
    /\ UNCHANGED <<chanVars, memVars, doneVars, locVars>>

\* The executor writes the state file, with any content, at any time.
StateContents ==
    {StateMissing, StatePartial, StateUnreadable, StateNonObject, StateEmptyObject,
     StateObject("Settings screen", ExampleTree, SomePhoneState),
     StateObject("Home", <<Node(1, Bounds_4_4_6_6, <<>>)>>, SomePhoneState)}

StateWrite ==
    /\ \E c \in StateContents : state_file' = c
    /\ UNCHANGED <<gs_pc, attempt, state_ret, clickable_elements_cache,
                   gs_attempts, gs_waits>>
    /\ UNCHANGED <<chanVars, memVars, doneVars, locVars>>

(***************************************************************************)
(* _extract_element_coordinates_by_index, lines 136-168.                   *)
(***************************************************************************)
\* the search does not go into the children
find_element_by_index_TopLevelOnly(elements, target_index) ==
    LET hits == {k \in 1..Len(elements) : elements[k].index = target_index}
    IN  IF hits = {} THEN <<>>
        ELSE <<elements[CHOOSE k \in hits : \A j \in hits : k <= j]>>

\* lines 138-147; None is <<>> and an element e is <<e>>
RECURSIVE find_element_by_index(_, _)
find_element_by_index(elements, target_index) ==
    IF elements = <<>> THEN <<>>
    ELSE LET item == Head(elements)
         IN  IF item.index = target_index THEN <<item>>
             ELSE LET result == IF item.children # <<>>
                                THEN find_element_by_index(item.children, target_index)
                                ELSE <<>>
                  IN  IF result # <<>> THEN result
                      ELSE find_element_by_index(Tail(elements), target_index)

\* str.split(","): the fields between the commas
RECURSIVE SplitFrom(_, _, _)
SplitFrom(s, i, field) ==
    IF i > Len(s) THEN <<field>>
    ELSE IF s[i] = "," THEN <<field>> \o SplitFrom(s, i + 1, <<>>)
    ELSE SplitFrom(s, i + 1, Append(field, s[i]))
Split(s) == SplitFrom(s, 1, <<>>)

Digits == <<"0", "1", "2", "3", "4", "5", "6", "7", "8", "9">>
IsDigit(c) == \E d \in DOMAIN Digits : Digits[d] = c
DigitValue(c) == (CHOOSE d \in DOMAIN Digits : Digits[d] = c) - 1

RECURSIVE DigitsValue(_)
DigitsValue(ds) ==
    IF ds = <<>> THEN 0
    ELSE 10 * DigitsValue(SubSeq(ds, 1, Len(ds) - 1)) + DigitValue(ds[Len(ds)])

\* int(x) of a string: blanks around, a sign, digits; ValueError otherwise
ParseInt(x) ==
    LET f == Strip(x)
        signed == f # <<>> /\ f[1] \in {"-", "+"}
        ds == IF signed THEN Tail(f) ELSE f
    IN  IF ds # <<>> /\ \A k \in 1..Len(ds) : IsDigit(ds[k])
        THEN [ok |-> TRUE,
              value |-> IF signed /\ f[1] = "-" THEN 0 - DigitsValue(ds)
                                                ELSE DigitsValue(ds)]
        ELSE [ok |-> FALSE, value |-> 0]

\* the quotient is rounded toward zero
Midpoint_TowardZero(a, b) ==
    IF a + b < 0 THEN 0 - ((0 - (a + b)) \div 2) ELSE (a + b) \div 2

\* lines 165-166: (left + right) // 2, rounded down
Midpoint(a, b) == (a + b) \div 2

NoResult == [kind |-> "none", message |-> "", x |-> 0, y |-> 0, element |-> <<>>]
ValueError(msg, found) ==
    [kind |-> "ValueError", message |-> msg, x |-> 0, y |-> 0, element |-> found]
Coordinates(x, y, found) ==
    [kind |-> "ok", message |-> "", x |-> x, y |-> y, element |-> found]

\* lines 149-168, with the element found (the local `element`) beside the
\* coordinates returned or the error raised
ExtractCoordinates(cache, index) ==
    IF cache = <<>>
    THEN ValueError("No UI elements cached. Call get_state first.", <<>>)
    ELSE LET found == find_element_by_index(cache, index)
         IN  IF found = <<>>
             THEN ValueError("No element found with index", <<>>)
             ELSE IF found[1].bounds = <<>>
             THEN ValueError("Element has no bounds", found)
             ELSE LET fields == Split(found[1].bounds)
                      bounds == [k \in 1..Len(fields) |-> ParseInt(fields[k])]
                  IN  IF \E k \in 1..Len(fields) : ~bounds[k].ok
                      THEN ValueError("invalid literal for int()", found)
                      ELSE IF Len(bounds) # 4
                      THEN ValueError("Invalid bounds format", found)
                      ELSE Coordinates(Midpoint(bounds[1].value, bounds[3].value),
                                       Midpoint(bounds[2].value, bounds[4].value),
                                       found)

NoLocation == [index |-> 0, tree |-> <<>>, result |-> NoResult]

\* the indices looked up: those of the trees, and one no tree has
Targets == {1, 2, 3, 99}

\* a call of _extract_element_coordinates_by_index; locate_ret keeps its
\* arguments beside what it gave
Locate ==
    /\ \E index \in Targets :
          locate_ret' = [index |-> index, tree |-> clickable_elements_cache,
                         result |-> ExtractCoordinates(clickable_elements_cache, index)]
    /\ UNCHANGED <<chanVars, stateVars, memVars, doneVars>>

\* The element trees of at most MaxNodes nodes, indices 1 to 3, each node
\* with the bounds the example gives its index.
TreeIndices == {1, 2, 3}
BoundsOfIndex(i) ==
    CASE i = 1 -> Bounds_0_0_10_10
      [] i = 2 -> Bounds_0_0_20_20
      [] OTHER -> Bounds_4_4_6_6

RECURSIVE ForestsOf(_)
\* the lists of nodes with n nodes in all
ForestsOf(n) ==
    IF n = 0 THEN {<<>>}
    ELSE UNION {
           {<<Node(i, BoundsOfIndex(i), c)>> \o rest :
                i \in TreeIndices, c \in ForestsOf(k - 1), rest \in ForestsOf(n - k)}
           : k \in 1..n}
ForestsUpTo(n) == UNION {ForestsOf(k) : k \in 0..n}

(***************************************************************************)
(* remember, lines 268-279.  An argument is a string (its characters) or   *)
(* a value of another type.                                                *)
(***************************************************************************)
Str(chars) == [isstr |-> TRUE, truthy |-> chars # <<>>, text |-> chars]
NotStr(truthy) == [isstr |-> FALSE, truthy |-> truthy, text |-> <<>>]

\* the oldest items are kept
TrimMemory_KeepsOldest(mem) ==
    IF Len(mem) > max_memory_items THEN SubSeq(mem, 1, max_memory_items) ELSE mem

\* lines 275-277: self.memory[-max_memory_items:]
TrimMemory(mem) ==
    IF Len(mem) > max_memory_items
    THEN SubSeq(mem, Len(mem) - max_memory_items + 1, Len(mem))
    ELSE mem

\* the empty string passes
Rejected_NonStrOnly(information) == ~information.isstr

\* line 270: not information or not isinstance(information, str)
Rejected(information) == ~information.truthy \/ ~information.isstr

\* the notes given: "a", " b " (blanks around), "", None and 5
Notes == {Str(<<"a">>), Str(<<" ", "b", " ">>), Str(<<>>), NotStr(FALSE), NotStr(TRUE)}

Remember ==
    /\ \E information \in Notes :
          /\ remember_arg' = information
          /\ IF Rejected(information)
             THEN /\ remember_ret' = <<"Error: Please provide valid information to remember.">>
                  /\ UNCHANGED <<memory, accepted>>
             ELSE /\ Len(accepted) < MaxNotes
                  /\ memory' = TrimMemory(Append(memory, Strip(information.text)))
                  /\ remember_ret' = <<"Remembered: ">> \o information.text
                  /\ accepted' = Append(accepted, information.text)
    /\ UNCHANGED <<chanVars, stateVars, doneVars, locVars>>

(***************************************************************************)
(* complete, lines 285-296.  An Optional value is None or Some(v).         *)
(***************************************************************************)
None == <<>>
Some(v) == <<v>>

\* str(success)
BoolStr(b) == IF b THEN "True" ELSE "False"

\* the reason given is kept even when it is empty
ReasonRecorded_AsGiven(s, r) == r

\* line 289: reason or ("Task completed successfully." if success else
\* "Task failed.")
ReasonRecorded(s, r) ==
    IF r # "" THEN r
    ELSE IF s THEN "Task completed successfully." ELSE "Task failed."

\* finished follows the outcome
FinishedRecorded_OnSuccess(s) == s

\* line 290: self.finished = True
FinishedRecorded(s) == TRUE

\* lines 293-296: the request complete sends, with the reason as given
CompleteRequest(s, r) ==
    [actionType |-> "complete",
     parameters |-> {<<"success", BoolStr(s)>>, <<"reason", r>>}]

\* the arguments complete is called with
CompleteArgs ==
    {[success |-> FALSE, reason |-> ""], [success |-> TRUE, reason |-> "done"],
     [success |-> TRUE, reason |-> ""]}

\* lines 288-293: the status is recorded, then the request is sent and the
\* call waits for its result; nothing is awaited in between
Complete(t) ==
    /\ \E a \in CompleteArgs :
          /\ success' = Some(a.success)
          /\ reason' = Some(ReasonRecorded(a.success, a.reason))
          /\ finished' = FinishedRecorded(a.success)
          /\ StartExecute(t, CompleteRequest(a.success, a.reason))
    /\ UNCHANGED <<stateVars, memVars, locVars>>

\* a failure of the notification is swallowed
CompleteOutcome_Swallowed(o) == Returned(NoValue)

\* line 293: what complete gives its caller once the call it awaits has
\* ended: None when the call returned, else the exception the call raised
CompleteOutcome(o) == IF o.kind = "Success" THEN Returned(NoValue) ELSE o

(***************************************************************************)
(* The state after __init__, lines 48-62, with no file written yet.        *)
(***************************************************************************)

InitWith(content) ==
    /\ actions_file = [actionType |-> "", parameters |-> {}, actionId |-> NoActionId]
    /\ result_file = Missing
    /\ pc = [t \in Tasks |-> "idle"]
    /\ action_id = [t \in Tasks |-> NoActionId]
    /\ action_type = [t \in Tasks |-> ""]
    /\ elapsed = [t \in Tasks |-> 0]
    /\ outcome = [t \in Tasks |-> NoOutcome]
    /\ next_id = 1
    /\ written_when = "n/a"
    /\ saw_partial = [t \in Tasks |-> FALSE]
    /\ consumed = {}
    /\ ended = <<>>
    /\ state_file = content
    /\ gs_pc = "idle"
    /\ attempt = 0
    /\ state_ret = NoSnapshot
    /\ clickable_elements_cache = <<>>
    /\ gs_attempts = NoAttempts
    /\ gs_waits = 0
    /\ memory = <<>>
    /\ remember_ret = <<>>
    /\ accepted = <<>>
    /\ remember_arg = NotStr(FALSE)
    /\ success = None
    /\ reason = None
    /\ finished = FALSE
    /\ locate_ret = NoLocation

Init == InitWith(StateMissing)

(***************************************************************************)
(* The action channel used as the agent uses it: one call at a time, by    *)
(* the one task of the agent, while the executor writes results.           *)
(***************************************************************************)
NextChannel ==
    \/ Execute(MainTask)
    \/ Resume(MainTask)
    \/ ExecutorWrite

SpecChannel == Init /\ [][NextChannel]_vars

\* Time advances: a call that waits at line 359 is resumed.
SpecChannelFair == SpecChannel /\ WF_vars(Resume(MainTask))

(***************************************************************************)
(* Two tasks call the channel at once.  Their steps interleave at the      *)
(* awaits, in any order, and the executor writes at any time, between the  *)
(* read and the removal of a poll iteration too.  Calls share the channel  *)
(* during their first MaxPolls polls; the first call of a run, while it    *)
(* has the channel to itself, waits to its deadline.                       *)
(***************************************************************************)
Waiting(t) == {u \in Tasks \ {t} : pc[u] = "sleep"}

NextConcurrent ==
    \/ \E t \in Tasks : (\A u \in Waiting(t) : elapsed[u] < MaxPolls) /\ Back(t)
    \/ \E t \in Tasks : (elapsed[t] < MaxPolls \/ next_id = 2) /\ Resume(t)
    \/ \E t \in Tasks : DeleteAfterOverwrite(t)
    \/ ExecutorWrite

SpecConcurrent == Init /\ [][NextConcurrent]_vars

(***************************************************************************)
(* The state reader, while the executor rewrites the state file.           *)
(***************************************************************************)
NextState ==
    \/ GetState
    \/ GetStateResume
    \/ StateWrite

SpecState == Init /\ [][NextState]_vars

(***************************************************************************)
(* Index resolution: the executor has written a snapshot with some element *)
(* tree; the agent reads the state and looks indices up, in any order.     *)
(***************************************************************************)
InitLocate ==
    \E tree \in ForestsUpTo(MaxNodes) :
        InitWith(StateObject("Screen", tree, SomePhoneState))

NextLocate ==
    \/ GetState
    \/ Locate

SpecLocate == InitLocate /\ [][NextLocate]_vars

(***************************************************************************)
(* The midpoint of the bounds: the snapshot has one element, with a bounds *)
(* string of four integers (negative ones and odd sums among them) or a    *)
(* malformed one.                                                          *)
(***************************************************************************)
\* integers as the executor writes them, with their values
Numerals ==
    {[text |-> <<"0">>, value |-> 0], [text |-> <<"7">>, value |-> 7],
     [text |-> <<"-", "3">>, value |-> 0 - 3], [text |-> <<"1", "0">>, value |-> 10]}

\* "left,top,right,bottom"
BoundsText(l, t, r, b) ==
    l.text \o <<",">> \o t.text \o <<",">> \o r.text \o <<",">> \o b.text

\* bounds that are not four integers: three fields and five, a field that
\* is a word, a decimal, or empty
MalformedBounds ==
    {<<"1", ",", "2", ",", "3">>,
     <<"1", ",", "2", ",", "3", ",", "4", ",", "5">>,
     <<"a", ",", "0", ",", "1", ",", "2">>,
     <<"1", ".", "5", ",", "0", ",", "1", ",", "2">>,
     <<"1", ",", ",", "2", ",", "3">>,
     <<"4", ",", "4", ",", "6", ",", "6", ",">>}

InitBounds ==
    \E b \in {BoundsText(l, t, r, bt) : l \in Numerals, t \in Numerals,
                                       r \in Numerals, bt \in Numerals}
              \cup MalformedBounds :
        InitWith(StateObject("Screen", <<Node(1, b, <<>>)>>, SomePhoneState))

NextBounds ==
    \/ GetState
    \/ Locate

SpecBounds == InitBounds /\ [][NextBounds]_vars

(***************************************************************************)
(* The memory log.                                                         *)
(***************************************************************************)
NextMemory == Remember

SpecMemory == Init /\ [][NextMemory]_vars

(***************************************************************************)
(* A task run: the agent calls the operations of the facade one at a time, *)
(* while the executor writes results.  The channel operations come in any  *)
(* order; remember and get_state, which share no variable with the         *)
(* channel, are taken once the calls of the run are made, remember until   *)
(* it has accepted a note.  The state file holds a snapshot.  The first    *)
(* call of the run waits to its deadline, a later one for MaxPolls polls.  *)
(***************************************************************************)
InitRun == InitWith(StateObject("Screen", ExampleTree, SomePhoneState))

CallsMade == next_id > MaxCalls /\ pc[MainTask] = "idle"

NextRun ==
    \/ Complete(MainTask)
    \/ Back(MainTask)
    \/ (elapsed[MainTask] < MaxPolls \/ next_id = 2) /\ Resume(MainTask)
    \/ ExecutorWrite
    \/ CallsMade /\ accepted = <<>> /\ Remember
    \/ CallsMade /\ GetState

SpecRun == InitRun /\ [][NextRun]_vars

(***************************************************************************)
(* Vocabulary of the claims about the action channel.                      *)
(***************************************************************************)
\* the step runs code of task t's call: it starts it (a fresh id), or it
\* resumes it after a wait (its clock moves)
CallStep(t) ==
    \/ action_id'[t] # action_id[t]
    \/ pc[t] = "sleep" /\ (elapsed'[t] # elapsed[t] \/ pc'[t] = "idle")

\* the time since the call's submission at which the step tests the deadline
CheckTime(t) ==
    IF action_id'[t] # action_id[t] THEN 0 ELSE elapsed[t] + poll_interval

\* the step is a poll iteration of t's call begun before the deadline: it
\* reads the result file as it is before the step
PollStep(t) == CallStep(t) /\ CheckTime(t) < max_wait_time

\* the step ends t's call
EndStep(t) == CallStep(t) /\ pc'[t] = "idle"

\* content c is a result that carries the id
Carries(c, id) == c.kind = "object" /\ "actionId" \in c.keys /\ c.actionId = id

\* a well-formed result for the id with success = true
WellFormedSuccess(c, id) ==
    Carries(c, id) /\ {"success", "result"} \subseteq c.keys /\ c.success = TRUE

\* a well-formed result for the id with success = false
WellFormedFailure(c, id) ==
    Carries(c, id) /\ "success" \in c.keys /\ c.success = FALSE

\* the payloads of the model, decoded: the structure "{\"ok\": true}" denotes,
\* and the string itself for "done", which is not JSON
ExpectedValue(payload) ==
    IF payload = "{\"ok\": true}" THEN [type |-> "dict", repr |-> "ok=True"]
    ELSE [type |-> "str", repr |-> payload]

TimedOut(t) == pc[t] = "idle" /\ outcome[t].kind = "Timeout"

(***************************************************************************)
(* C1 as claimed: a well-formed result with the call's id and success =    *)
(* true, written at any moment before the deadline of the call (while the  *)
(* call was still waiting), is returned: the call does not end in Timeout  *)
(* with that result lying in the result file.                              *)
(***************************************************************************)
C1_AnyMomentBeforeDeadline ==
    \A t \in Tasks :
        (WellFormedSuccess(result_file, action_id[t])
         /\ written_when \in {"early", "last"}) => ~TimedOut(t)

(***************************************************************************)
(* C1 amended: a poll iteration begun before the deadline that finds a     *)
(* well-formed result with the call's id and success = true returns the    *)
(* decoded payload, and the result file is gone when the call returns;     *)
(* and a call never ends in Timeout over such a result written more than   *)
(* one poll interval before its deadline.                                  *)
(***************************************************************************)
C1_PolledResultReturned ==
    [][\A t \in Tasks :
        /\ (PollStep(t) /\ WellFormedSuccess(result_file, action_id'[t]))
             => /\ pc'[t] = "idle"
                /\ outcome'[t] = Returned(ExpectedValue(result_file.result))
                /\ result_file' = Missing
        /\ (EndStep(t) /\ outcome'[t].kind = "Timeout"
             /\ WellFormedSuccess(result_file, action_id'[t]))
             => written_when # "early"
      ]_vars

\* C1's case: a call that waited, then returned the parsed payload, with the
\* result file removed
C1_Witness ==
    /\ pc[MainTask] = "idle" /\ action_id[MainTask] \in consumed
    /\ outcome[MainTask] = Returned([type |-> "dict", repr |-> "ok=True"])
    /\ result_file = Missing

(***************************************************************************)
(* C2 as claimed: a poll iteration of a call waiting on id A that reads a  *)
(* result file carrying a different id, or none, leaves the file as it is  *)
(* and does not end the call (the call ends only on a result with id A or  *)
(* at the deadline); and the agent removes the file only in an iteration   *)
(* whose content carries the id of the call.                               *)
(***************************************************************************)
C2_ForeignResultIgnored ==
    [][\A t \in Tasks :
        /\ (PollStep(t) /\ result_file.kind # "missing"
             /\ ~Carries(result_file, action_id'[t]))
             => result_file' = result_file /\ pc'[t] = "sleep"
        /\ (CallStep(t) /\ result_file' # result_file)
             => Carries(result_file, action_id'[t]) /\ result_file' = Missing
      ]_vars

(***************************************************************************)
(* C2 for the contents that are JSON objects or unparseable (every content *)
(* but a JSON value that is not an object): it holds.                      *)
(***************************************************************************)
C2_ObjectOrPartialIgnored ==
    [][\A t \in Tasks :
        /\ (PollStep(t) /\ result_file.kind \in {"object", "partial"}
             /\ ~Carries(result_file, action_id'[t]))
             => result_file' = result_file /\ pc'[t] = "sleep"
        /\ (CallStep(t) /\ result_file' # result_file)
             => Carries(result_file, action_id'[t]) /\ result_file' = Missing
      ]_vars

(***************************************************************************)
(* C3 as claimed: once a call has read an unparseable result file, a valid *)
(* result with its id written before the deadline (while the call was      *)
(* still waiting) still ends the call, not a Timeout.                      *)
(***************************************************************************)
C3_LaterWriteBeforeDeadline ==
    \A t \in Tasks :
        (saw_partial[t] /\ Carries(result_file, action_id[t])
         /\ written_when \in {"early", "last"}) => ~TimedOut(t)

(***************************************************************************)
(* C3 amended: a poll iteration that finds the result file unparseable     *)
(* (json.load raises JSONDecodeError) leaves the file as it is and the     *)
(* call waiting; after such iterations, a poll iteration begun before the  *)
(* deadline that finds a valid result with the call's id ends the call     *)
(* with that result (Success or ActionFailure), and the call never ends in *)
(* Timeout over such a result written more than one poll interval before   *)
(* its deadline.                                                           *)
(***************************************************************************)
C3_PartialTolerated ==
    [][\A t \in Tasks :
        /\ (PollStep(t) /\ result_file.kind = "partial")
             => /\ result_file' = result_file
                /\ pc'[t] = "sleep"
                /\ outcome'[t].kind = "none"
        /\ (PollStep(t) /\ saw_partial[t] /\ pc[t] = "sleep"
             /\ Carries(result_file, action_id[t]))
             => /\ pc'[t] = "idle"
                /\ result_file' = Missing
                /\ outcome'[t].kind =
                      IF result_file.success THEN "Success" ELSE "ActionFailure"
        /\ (EndStep(t) /\ outcome'[t].kind = "Timeout" /\ saw_partial[t]
             /\ Carries(result_file, action_id'[t]))
             => written_when # "early"
      ]_vars

\* C3's case: a call that read an unparseable file and ended with the result
\* written afterwards
C3_Witness ==
    /\ saw_partial[MainTask] /\ pc[MainTask] = "idle"
    /\ outcome[MainTask].kind = "Success"
    /\ action_id[MainTask] \in consumed

(***************************************************************************)
(* C4 as claimed: a call that ends without having read a result with its   *)
(* id ends in Timeout, reporting its actionType, and only when the full    *)
(* wait has elapsed, and less than one poll interval more.                 *)
(***************************************************************************)
C4_NoMatchEndsInTimeout ==
    [][\A t \in Tasks :
        (EndStep(t) /\ ~Carries(result_file, action_id'[t]))
        => /\ outcome'[t].kind = "Timeout"
           /\ outcome'[t].message =
                 <<"Action ", action_type'[t], " timed out after 30.0s">>
           /\ CheckTime(t) >= max_wait_time
           /\ CheckTime(t) < max_wait_time + poll_interval
      ]_vars

(***************************************************************************)
(* The timing of C4 alone: a call that ends in Timeout does so when the    *)
(* full wait has elapsed and less than one poll interval more, and reports *)
(* its actionType.  It holds.                                              *)
(***************************************************************************)
C4_TimeoutTiming ==
    [][\A t \in Tasks :
        (EndStep(t) /\ outcome'[t].kind = "Timeout")
        => /\ outcome'[t].message =
                 <<"Action ", action_type'[t], " timed out after 30.0s">>
           /\ CheckTime(t) >= max_wait_time
           /\ CheckTime(t) < max_wait_time + poll_interval
      ]_vars

(***************************************************************************)
(* C5: a poll iteration that finds a result with the call's id and         *)
(* success = false ends the call with ActionFailure carrying the           *)
(* executor's error string ("Unknown error" when the result has none), and *)
(* the result file is removed in that same iteration.                      *)
(***************************************************************************)
C5_FailureRaisedFileRemoved ==
    [][\A t \in Tasks :
        (PollStep(t) /\ WellFormedFailure(result_file, action_id'[t]))
        => /\ pc'[t] = "idle"
           /\ outcome'[t].kind = "ActionFailure"
           /\ outcome'[t].value = NoValue
           /\ outcome'[t].message =
                 <<"Action failed: ",
                   IF "error" \in result_file.keys THEN result_file.error
                                                   ELSE "Unknown error">>
           /\ result_file' = Missing
      ]_vars

\* C5's case: a call ended with ActionFailure carrying the executor's error,
\* and the result file is gone
C5_Witness ==
    /\ pc[MainTask] = "idle"
    /\ outcome[MainTask].kind = "ActionFailure"
    /\ outcome[MainTask].message = <<"Action failed: ", "element not found">>
    /\ result_file = Missing
    /\ action_id[MainTask] \in consumed

(***************************************************************************)
(* C6 as claimed, for the calls whose reading of the result file raised    *)
(* nothing: once request N+1 is written, the result of request N has been  *)
(* consumed.                                                               *)
(***************************************************************************)
C6_EveryResultConsumed ==
    \A n \in 1..Len(ended) :
        (n < Len(ended) /\ ended[n] # "AttributeError") => n \in consumed

(***************************************************************************)
(* C6 amended: call N has ended before request N+1 is written; the agent   *)
(* consumes the result of request N only during call N, so never after     *)
(* request N+1 is written; it has consumed it when call N ended with       *)
(* Success or ActionFailure and never consumes it when call N ended        *)
(* otherwise (Timeout, or an error raised while reading the result file).  *)
(***************************************************************************)
C6_ConsumedBeforeNextRequest ==
    /\ [](\A n \in 1..Len(ended) :
            /\ n < Len(ended) => ended[n] # "pending"
            /\ ended[n] # "pending"
                 => (n \in consumed <=> ended[n] \in {"Success", "ActionFailure"}))
    /\ [][\A n \in consumed' \ consumed :
            n = actions_file'.actionId /\ n = Len(ended')]_vars

\* C6's case: request 2 is written and the result of request 1 was consumed
C6_Witness ==
    /\ Len(ended) = 2 /\ actions_file.actionId = 2
    /\ 1 \in consumed /\ pc[MainTask] = "sleep"

(***************************************************************************)
(* Vocabulary of the claims about get_state.                               *)
(***************************************************************************)
\* the attempts of the get_state call in progress, or of the last one
AttemptsMade ==
    gs_attempts.missing + gs_attempts.partial + gs_attempts.parsed
    + (IF gs_attempts.error # "none" THEN 1 ELSE 0)

\* a get_state call has returned, and none is in progress
StateReturned == gs_pc = "idle" /\ AttemptsMade > 0

\* the sentinel: empty element tree, phoneState.packageName = "Unknown"
IsSentinel(snapshot) ==
    /\ snapshot.raised = "none"
    /\ snapshot.a11y_tree = <<>>
    /\ <<"packageName", "Unknown">> \in snapshot.phone_state

(***************************************************************************)
(* C7: a get_state call whose every attempt found the state file missing   *)
(* or unparseable returns the sentinel snapshot (text "State not           *)
(* available", empty tree, packageName "Unknown"), and has made exactly 10 *)
(* attempts when it returns; no call makes more than 10 attempts.          *)
(***************************************************************************)
C7_SentinelAfterTenAttempts ==
    /\ AttemptsMade <= 10
    /\ (StateReturned /\ gs_attempts.parsed = 0 /\ gs_attempts.error = "none")
        => /\ IsSentinel(state_ret)
           /\ state_ret.formatted_text = <<"State not available">>
           /\ gs_attempts.missing + gs_attempts.partial = 10

\* C7's case: a call returned the sentinel after attempts that found the
\* file missing and attempts that found it unparseable
C7_Witness ==
    /\ StateReturned
    /\ gs_attempts.missing > 0 /\ gs_attempts.partial > 0
    /\ gs_attempts.parsed = 0 /\ gs_attempts.error = "none"
    /\ state_ret.formatted_text = <<"State not available">>

(***************************************************************************)
(* C8: get_state never lets an exception through: every call returns a     *)
(* snapshot, whatever its attempts found (file missing, unparseable,       *)
(* unreadable, not a JSON object); when an attempt failed unexpectedly the *)
(* snapshot returned is the sentinel with the error in its text.           *)
(***************************************************************************)
C8_AlwaysReturnsSnapshot ==
    /\ state_ret.raised = "none"
    /\ (StateReturned /\ gs_attempts.error # "none")
        => /\ IsSentinel(state_ret)
           /\ state_ret.formatted_text = <<"Error: ", gs_attempts.error>>

\* C8's case: a call whose attempt could not read the file (after a retry)
\* returned the sentinel with the error in its text
C8_Witness ==
    /\ StateReturned
    /\ gs_attempts.error = "PermissionError"
    /\ gs_attempts.missing + gs_attempts.partial > 0
    /\ state_ret.formatted_text = <<"Error: ", "PermissionError">>
    /\ IsSentinel(state_ret)

(***************************************************************************)
(* Vocabulary of the claims about index resolution.                        *)
(***************************************************************************)
\* the nodes of a tree in pre-order: a node, then its children in order,
\* then the node's next sibling
RECURSIVE Preorder(_)
Preorder(elements) ==
    IF elements = <<>> THEN <<>>
    ELSE <<Head(elements)>> \o Preorder(Head(elements).children)
                            \o Preorder(Tail(elements))

\* the first node in pre-order with the index, as <<node>>; <<>> when none
FirstInPreorder(elements, index) ==
    LET nodes == Preorder(elements)
        hits == {k \in 1..Len(nodes) : nodes[k].index = index}
    IN  IF hits = {} THEN <<>>
        ELSE <<nodes[CHOOSE k \in hits : \A j \in hits : k <= j]>>

NotFound(r) ==
    /\ r.kind = "ValueError"
    /\ r.message \in {"No UI elements cached. Call get_state first.",
                       "No element found with index"}

(***************************************************************************)
(* C9: a lookup selects the first node in pre-order whose index is the     *)
(* target; it fails with NotFound exactly when no node of the cached tree  *)
(* has the index (the empty cache included); on the example tree, target 3 *)
(* gives (5,5) and target 99 gives NotFound.                               *)
(***************************************************************************)
C9_FirstPreorderMatch ==
    locate_ret.result.kind # "none" =>
        /\ locate_ret.result.element = FirstInPreorder(locate_ret.tree, locate_ret.index)
        /\ NotFound(locate_ret.result)
             <=> FirstInPreorder(locate_ret.tree, locate_ret.index) = <<>>
        /\ (locate_ret.tree = ExampleTree /\ locate_ret.index = 3)
             => /\ locate_ret.result.kind = "ok"
                /\ locate_ret.result.x = 5 /\ locate_ret.result.y = 5
        /\ (locate_ret.tree = ExampleTree /\ locate_ret.index = 99)
             => NotFound(locate_ret.result)

\* C9's case: index 3 looked up in the example tree, found below a node that
\* does not match
C9_Witness ==
    /\ locate_ret.tree = ExampleTree /\ locate_ret.index = 3
    /\ locate_ret.result.kind = "ok"
    /\ locate_ret.result.element = <<Node(3, Bounds_4_4_6_6, <<>>)>>
    /\ locate_ret.result.x = 5 /\ locate_ret.result.y = 5

(***************************************************************************)
(* Vocabulary of the claims about the memory log.                          *)
(***************************************************************************)
\* the last n items of a list
LastItems(list, n) == SubSeq(list, Len(list) - n + 1, Len(list))
Smaller(a, b) == IF a < b THEN a ELSE b

\* the notes of the model without the blanks around them
WithoutBlanks(note) == IF note = <<" ", "b", " ">> THEN <<"b">> ELSE note

(***************************************************************************)
(* C10 as claimed: the memory log is the last min(n, 10) accepted notes,   *)
(* in their order, n being the number of notes accepted so far.            *)
(***************************************************************************)
C10_LastTenNotesAsGiven ==
    /\ Len(memory) <= 10
    /\ memory = LastItems(accepted, Smaller(Len(accepted), 10))

(***************************************************************************)
(* C10 amended: the memory log is the last min(n, 10) accepted notes, in   *)
(* their order, each without the blanks around it (remember stores         *)
(* information.strip()); its length never exceeds 10.                      *)
(***************************************************************************)
C10_LastTenNotesStripped ==
    /\ Len(memory) <= 10
    /\ Len(memory) = Smaller(Len(accepted), 10)
    /\ \A k \in 1..Len(memory) :
          memory[k] = WithoutBlanks(accepted[Len(accepted) - Len(memory) + k])

\* C10's case: the 11th note has evicted the oldest one, which differed from
\* the second
C10_Witness ==
    /\ Len(accepted) = 11 /\ Len(memory) = 10
    /\ accepted[1] = <<"a">> /\ accepted[2] = <<" ", "b", " ">>
    /\ memory[1] = <<"b">> /\ memory[10] = WithoutBlanks(accepted[11])

(***************************************************************************)
(* Vocabulary of the claims about completion.                              *)
(***************************************************************************)
\* the last request written is complete(s, r)
LastRequestIsComplete(s, r) ==
    /\ actions_file.actionType = "complete"
    /\ <<"success", IF s THEN "True" ELSE "False">> \in actions_file.parameters
    /\ <<"reason", r>> \in actions_file.parameters

\* the canned message of an outcome
CannedMessage(s) == IF s THEN "Task completed successfully." ELSE "Task failed."

(***************************************************************************)
(* C11: once complete(s, r) has run, success is s, finished is true, and   *)
(* reason is r when r is not empty and the canned message of the outcome   *)
(* otherwise; complete(false, "") gives reason "Task failed." and          *)
(* complete(true, "done") gives reason "done".                             *)
(***************************************************************************)
C11_CompleteSetsStatus ==
    /\ \A s \in BOOLEAN, r \in {"", "done"} :
          LastRequestIsComplete(s, r)
          => /\ success = <<s>>
             /\ finished
             /\ reason = <<IF r = "" THEN CannedMessage(s) ELSE r>>
    /\ LastRequestIsComplete(FALSE, "")
          => success = <<FALSE>> /\ finished /\ reason = <<"Task failed.">>
    /\ LastRequestIsComplete(TRUE, "done") => reason = <<"done">>

\* C11's case: complete(false, "") has run and the canned failure message
\* is the reason
C11_Witness ==
    /\ LastRequestIsComplete(FALSE, "")
    /\ success = <<FALSE>> /\ finished /\ reason = <<"Task failed.">>

\* the step is a call of complete: it writes a complete request with a
\* fresh id
CompleteStep ==
    /\ actions_file'.actionType = "complete"
    /\ actions_file'.actionId # actions_file.actionId

(***************************************************************************)
(* C12 as claimed: finished starts false, only complete sets it, no        *)
(* operation resets it, and the completion status is set once: once set,   *)
(* no operation changes it.                                                *)
(***************************************************************************)
C12_StatusSetOnce ==
    /\ ~finished
    /\ [][/\ finished => finished'
          /\ finished' # finished => CompleteStep
          /\ finished => (success' = success /\ reason' = reason)]_vars

(***************************************************************************)
(* C12 amended: finished starts false with success and reason unset; only  *)
(* complete sets finished, and no operation (a further complete, remember, *)
(* get_state, an execute call, a failing one included) resets it; success  *)
(* and reason change only in a call of complete, and every call of         *)
(* complete assigns them anew.                                             *)
(***************************************************************************)
C12_FinishedMonotonic ==
    /\ (~finished /\ success = <<>> /\ reason = <<>>)
    /\ [][/\ finished => finished'
          /\ (finished' # finished \/ success' # success \/ reason' # reason)
               => CompleteStep
          /\ CompleteStep => finished' /\ success' # <<>> /\ reason' # <<>>]_vars

\* C12's case: after complete, a back() call failed, remember accepted a
\* note and get_state returned, and finished is still true
C12_Witness ==
    /\ finished
    /\ action_type[MainTask] = "back" /\ pc[MainTask] = "idle"
    /\ outcome[MainTask].kind = "ActionFailure"
    /\ accepted # <<>>
    /\ state_ret # NoSnapshot

(***************************************************************************)
(* C13 as claimed: the element tree held for index resolution is the tree  *)
(* of the snapshot the most recent get_state call returned, the sentinel   *)
(* with its empty tree included; before any call it is empty.              *)
(***************************************************************************)
C13_CacheIsLastSnapshotTree ==
    clickable_elements_cache = state_ret.a11y_tree

(***************************************************************************)
(* C13 for the calls that parsed a snapshot: when the most recent call     *)
(* returned a snapshot read from the state file, the tree held is that     *)
(* snapshot's.  It holds.                                                  *)
(***************************************************************************)
C13_CacheIsLastParsedTree ==
    (state_ret # NoSnapshot /\ ~IsSentinel(state_ret))
    => clickable_elements_cache = state_ret.a11y_tree

\* the step submits a call of task t: a new id is drawn
SubmitStep(t) == action_id'[t] # action_id[t]

\* the ids the requests written so far carried
EarlierIds == 1..Len(ended)

(***************************************************************************)
(* C14: a call writes the request file once, when it is submitted, with an *)
(* actionId no earlier request carried; no later step of the call writes   *)
(* it, and nothing else does; the step that ends a call in Timeout leaves  *)
(* the request file (still holding the call's request) and the result file *)
(* as they are.                                                            *)
(***************************************************************************)
C14_RequestWrittenOnce ==
    [][/\ \A t \in Tasks :
            /\ SubmitStep(t)
                 => /\ actions_file'.actionId = action_id'[t]
                    /\ actions_file'.actionType = action_type'[t]
                    /\ action_id'[t] \notin EarlierIds
                    /\ actions_file' # actions_file
            /\ (CallStep(t) /\ ~SubmitStep(t)) => actions_file' = actions_file
            /\ (EndStep(t) /\ outcome'[t].kind = "Timeout")
                 => /\ actions_file' = actions_file
                    /\ actions_file.actionId = action_id[t]
                    /\ result_file' = result_file
       /\ actions_file' # actions_file => \E t \in Tasks : SubmitStep(t)
      ]_vars

\* C14's case: the second call of the channel timed out; its request, with
\* an id of its own, is still in the request file and the result file
\* still holds what the executor wrote
C14_Witness ==
    /\ TimedOut(MainTask) /\ Len(ended) = 2
    /\ actions_file.actionId = action_id[MainTask]
    /\ action_id[MainTask] # 1
    /\ result_file # Missing

(***************************************************************************)
(* C15 as claimed: whatever the executor writes, every call that was       *)
(* submitted ends, and ends in one of Success, ActionFailure and Timeout.  *)
(***************************************************************************)
C15_EndsInOneOfThree ==
    /\ [](\A n \in 1..Len(ended) :
             ended[n] \in {"pending", "Success", "ActionFailure", "Timeout"})
    /\ \A t \in Tasks : pc[t] = "sleep" ~> pc[t] = "idle"

(***************************************************************************)
(* The termination of C15 alone: a call that waits ends, whatever the      *)
(* executor writes; it has then ended in one way.  It holds.               *)
(***************************************************************************)
C15_EveryCallEnds ==
    /\ [](\A t \in Tasks : pc[t] = "idle" /\ action_id[t] # NoActionId
             => ended[action_id[t]] = outcome[t].kind /\ outcome[t].kind # "none")
    /\ \A t \in Tasks : pc[t] = "sleep" ~> pc[t] = "idle"

\* the step is an attempt of a get_state call: it looks at the state file
\* as it is before the step
ReadAttempt ==
    \/ gs_pc = "sleep" /\ gs_attempts' # gs_attempts
    \/ gs_pc = "idle" /\ (gs_attempts' # gs_attempts \/ gs_pc' # gs_pc
                            \/ state_ret' # state_ret)

\* the waits made before the step by the call it belongs to
WaitsSoFar == IF gs_pc = "idle" THEN 0 ELSE gs_waits

(***************************************************************************)
(* C16: an attempt of get_state that finds the state file missing or       *)
(* unparseable is followed by exactly one wait and changes nothing else;   *)
(* an attempt (the k-th, k from 1 to 10, after k-1 such failures) that     *)
(* finds a snapshot returns its contents at once, and the cached element   *)
(* tree becomes the snapshot's; the call has then waited once per failed   *)
(* attempt.                                                                *)
(***************************************************************************)
C16_TransientFailuresRetried ==
    [][/\ (ReadAttempt /\ state_file.kind \in {"missing", "partial"})
            => /\ gs_pc' = "sleep"
               /\ gs_waits' = WaitsSoFar + 1
               /\ state_ret' = state_ret
               /\ clickable_elements_cache' = clickable_elements_cache
       /\ (ReadAttempt /\ state_file.kind = "object")
            => /\ gs_pc' = "idle"
               /\ gs_waits' = WaitsSoFar
               /\ state_ret'.raised = "none"
               /\ state_ret'.formatted_text =
                     <<IF "formattedText" \in state_file.keys
                       THEN state_file.formattedText ELSE "">>
               /\ state_ret'.a11y_tree =
                     (IF "a11yTree" \in state_file.keys THEN state_file.a11yTree ELSE <<>>)
               /\ state_ret'.phone_state =
                     (IF "phoneState" \in state_file.keys THEN state_file.phoneState ELSE {})
               /\ clickable_elements_cache' = state_ret'.a11y_tree
               /\ gs_attempts'.parsed = 1
               /\ gs_waits' = gs_attempts'.missing + gs_attempts'.partial
               /\ gs_waits' < 10
      ]_vars

\* C16's case: the file was missing, then unparseable, and held a snapshot
\* on the 10th attempt, which the call returned after 9 waits
C16_Witness ==
    /\ StateReturned /\ gs_attempts.parsed = 1 /\ gs_attempts.error = "none"
    /\ gs_attempts.missing > 0 /\ gs_attempts.partial > 0
    /\ gs_attempts.missing + gs_attempts.partial = 9 /\ gs_waits = 9
    /\ state_ret.a11y_tree = ExampleTree
    /\ clickable_elements_cache = ExampleTree

\* the step is a call of remember
RememberStep ==
    \/ remember_arg' # remember_arg \/ remember_ret' # remember_ret
    \/ memory' # memory \/ accepted' # accepted

\* the argument is not a non-empty text
InvalidNote(a) == ~a.isstr \/ a.text = <<>>

(***************************************************************************)
(* C17: a call of remember with an empty text or a value that is not a     *)
(* text returns the error message and changes neither the memory log nor   *)
(* any other state of the session; the log changes only in a call with a   *)
(* non-empty text, which appends one note.                                 *)
(***************************************************************************)
C17_InvalidNoteRejected ==
    [][/\ (RememberStep /\ InvalidNote(remember_arg'))
            => /\ remember_ret' = <<"Error: Please provide valid information to remember.">>
               /\ memory' = memory
               /\ accepted' = accepted
               /\ UNCHANGED <<chanVars, stateVars, doneVars, locVars>>
       /\ memory' # memory
            => /\ ~InvalidNote(remember_arg')
               /\ Len(accepted') = Len(accepted) + 1
               /\ accepted'[Len(accepted')] = remember_arg'.text
               /\ remember_ret'[1] = "Remembered: "
      ]_vars

\* C17's case: with notes in the log, remember was called with the empty
\* text, returned the error message and left the log as it was
C17_Witness ==
    /\ remember_arg = Str(<<>>)
    /\ remember_ret = <<"Error: Please provide valid information to remember.">>
    /\ Len(memory) = 2 /\ Len(accepted) = 2

\* the lookup found an element: its bounds string
FoundBounds == locate_ret.result.element[1].bounds

(***************************************************************************)
(* C18: for a matched node with bounds "left,top,right,bottom", four       *)
(* integers, the lookup returns x = floor((left+right)/2) and              *)
(* y = floor((top+bottom)/2), odd and negative sums included; for bounds   *)
(* that are not four integers it fails with a ValueError about the format  *)
(* and returns no coordinate.                                              *)
(***************************************************************************)
C18_FloorMidpoint ==
    locate_ret.result.element # <<>> =>
        /\ \A l \in Numerals, t \in Numerals, r \in Numerals, b \in Numerals :
              FoundBounds = BoundsText(l, t, r, b)
              => /\ locate_ret.result.kind = "ok"
                 /\ 2 * locate_ret.result.x <= l.value + r.value
                 /\ l.value + r.value <= 2 * locate_ret.result.x + 1
                 /\ 2 * locate_ret.result.y <= t.value + b.value
                 /\ t.value + b.value <= 2 * locate_ret.result.y + 1
        /\ FoundBounds \in MalformedBounds
              => /\ locate_ret.result.kind = "ValueError"
                 /\ locate_ret.result.message
                      \in {"Invalid bounds format", "invalid literal for int()"}
                 /\ locate_ret.result.x = 0 /\ locate_ret.result.y = 0

\* C18's case: bounds "-3,7,0,10", with a negative odd sum: x = -2 (rounded
\* down, not toward zero) and y = 8
C18_Witness ==
    /\ locate_ret.result.element # <<>>
    /\ FoundBounds = <<"-", "3", ",", "7", ",", "0", ",", "1", "0">>
    /\ locate_ret.result.kind = "ok"
    /\ locate_ret.result.x = 0 - 2 /\ locate_ret.result.y = 8

(***************************************************************************)
(* C19 as claimed: with calls of two tasks on the channel, a call that     *)
(* returns a value or fails with ActionFailure does so from a result with  *)
(* its own id, and no call deletes a result carrying another call's id:    *)
(* of the results of the calls made so far, a step of a call removes only  *)
(* one with the id of that call.                                           *)
(***************************************************************************)
C19_OnlyOwnResultDeleted ==
    [][\A t \in Tasks :
        /\ (EndStep(t) /\ outcome'[t].kind \in {"Success", "ActionFailure"})
             => Carries(result_file, action_id'[t])
        /\ CallStep(t) => (consumed' \ consumed) \cap EarlierIds \subseteq {action_id'[t]}
      ]_vars

(***************************************************************************)
(* C19 amended: a call that returns a value or fails with ActionFailure    *)
(* does so from a result it read with its own id, with the outcome that    *)
(* result gives; a call removes the result file only in a poll iteration   *)
(* in which it read a result with its own id; and no step is a step of two *)
(* calls.  (The file removed holds the result read unless the executor     *)
(* rewrote it between the read and the removal.)                           *)
(***************************************************************************)
C19_EndsOnOwnResult ==
    [][\A t \in Tasks :
        /\ (EndStep(t) /\ outcome'[t].kind \in {"Success", "ActionFailure"})
             => /\ Carries(result_file, action_id'[t])
                /\ outcome'[t].kind =
                      (IF "success" \in result_file.keys /\ result_file.success
                       THEN "Success" ELSE "ActionFailure")
                /\ result_file' = Missing
        /\ (CallStep(t) /\ result_file' # result_file)
             => Carries(result_file, action_id'[t]) /\ result_file' = Missing
        /\ CallStep(t) => \A u \in Tasks \ {t} : ~CallStep(u)
      ]_vars

\* C19's case: the calls of two tasks overlap; the later call has ended
\* with its own result while the earlier one still waits, and the result of
\* the earlier call is now in the file
C19_Witness ==
    /\ action_id["t1"] = 1 /\ pc["t1"] = "sleep"
    /\ action_id["t2"] = 2 /\ pc["t2"] = "idle" /\ outcome["t2"].kind = "Success"
    /\ consumed = {2}
    /\ Carries(result_file, 1)

\* the notification of task t's complete call has failed
NotificationFailed(t) ==
    /\ pc[t] = "idle" /\ action_type[t] = "complete"
    /\ outcome[t].kind \in {"Timeout", "ActionFailure"}

(***************************************************************************)
(* C20: the status is recorded when the complete request is written, so    *)
(* while the call waits and once it has failed with Timeout or             *)
(* ActionFailure, finished is true and success and reason are those of the *)
(* call; the failure is what complete gives its caller; and the step in    *)
(* which the notification fails leaves the status as it is.                *)
(***************************************************************************)
C20_StatusKeptWhenNotificationFails ==
    /\ [](\A t \in Tasks :
            /\ (action_type[t] = "complete" /\ actions_file.actionId = action_id[t])
                 => /\ finished
                    /\ \A s \in BOOLEAN, r \in {"", "done"} :
                          LastRequestIsComplete(s, r)
                          => /\ success = <<s>>
                             /\ reason = <<IF r = "" THEN CannedMessage(s) ELSE r>>
            /\ NotificationFailed(t)
                 => /\ finished /\ success # <<>> /\ reason # <<>>
                    /\ CompleteOutcome(outcome[t]) = outcome[t])
    /\ [][\A t \in Tasks :
            (EndStep(t) /\ action_type[t] = "complete" /\ ~SubmitStep(t)
             /\ outcome'[t].kind \in {"Timeout", "ActionFailure"})
            => finished' /\ success' = success /\ reason' = reason]_vars

\* C20's case: complete(true, "done") was called and its notification timed
\* out; the status is the one the call set
C20_Witness ==
    /\ NotificationFailed(MainTask) /\ outcome[MainTask].kind = "Timeout"
    /\ LastRequestIsComplete(TRUE, "done")
    /\ actions_file.actionId = action_id[MainTask]
    /\ finished /\ success = <<TRUE>> /\ reason = <<"done">>

====
